---------------------------- MODULE Spec2Model ----------------------------
(***************************************************************************)
(* A model of mkbsc's State class (src/mkbsc/state.py) and of the game of  *)
(* src/main.py.                                                            *)
(*                                                                         *)
(* State objects live in a heap; an object's position in the heap stands   *)
(* for id(obj), which CPython only guarantees to be unique among live      *)
(* objects.  A frozenset of states is a duplicate-free sequence of ids:    *)
(* its range is the set's value, its order the order in which Python       *)
(* happens to enumerate it (hash order, i.e. address dependent).           *)
(* Player indices are 0-based as in the source; TLA+ tuples are 1-based.   *)
(***************************************************************************)
EXTENDS Integers, Sequences, FiniteSets, TLC

VARIABLES
    heap,                    \* the State objects constructed so far
    compact_representation,  \* class attribute State.compact_representation
    orderable,               \* class attribute State.orderable
    ret,                     \* the call in progress on a State and what it gave
    G,                       \* the graph an e-tree is being built in
    GK,                      \* the game G.KBSC() is building
    queue,                   \* the states of GK still to be expanded
    explored                 \* the joint actions tried at the head of queue

vars == <<heap, compact_representation, orderable, ret, G, GK, queue, explored>>

----------------------------------------------------------------------------
(* The game of main.py *)

\* states
L == <<"start", "hole", "no hole", "win", "lose">>

\* initial state
L0 == "start"

\* action alphabet, one per player
Sigma == <<<<"G", "P", "D">>, <<"G", "P", "D">>>>

\* action labeled transitions
Delta ==
    << <<"start", <<"G", "G">>, "hole">>,
       <<"start", <<"G", "G">>, "no hole">>,
       <<"hole", <<"D", "D">>, "hole">>,
       <<"hole", <<"P", "P">>, "win">>,
       <<"hole", <<"P", "D">>, "lose">>,
       <<"hole", <<"D", "P">>, "lose">>,
       <<"no hole", <<"D", "D">>, "hole">>,
       <<"no hole", <<"D", "P">>, "lose">>,
       <<"no hole", <<"P", "D">>, "lose">>,
       <<"hole", <<"P", "P">>, "lose">> >>

\* the observation partitionings with the two players' exchanged
ObsExchanged ==
    << << <<"start">>, <<"hole">>, <<"no hole">>, <<"win">>, <<"lose">> >>,
       << <<"start">>, <<"hole", "no hole">>, <<"win">>, <<"lose">> >> >>

\* observation partitioning, one per player
Obs ==
    << << <<"start">>, <<"hole", "no hole">>, <<"win">>, <<"lose">> >>,
       << <<"start">>, <<"hole">>, <<"no hole">>, <<"win">>, <<"lose">> >> >>

\* the number of players of the game
NumPlayers == Len(Sigma)

----------------------------------------------------------------------------
(* Bounds of the model *)

\* State objects constructed in Spec
MaxObjs == 3

\* State objects constructed before an e-tree is built, in SpecTree
TreeObjs == 4

\* the depths epistemic_trees_recursive_at_depth is asked about
MaxDepth == 3

\* State objects constructed in SpecVisit, and nodes of the graph built
VisitObjs == 4
MaxNodes == 5

\* the labels of the base states that Spec and SpecTree construct
Labels == {"hole", "no hole"}

\* base labels are arbitrary short strings: two that show in SpecVisit what
\* create_id makes of a label
ChainLabels == {"a", "a}1{a"}

----------------------------------------------------------------------------
(* Values *)

\* an int or short string used as the knowledge of a base state
Label(l) == [tag |-> "label", val |-> l]

\* frozenset(...) of State objects, in its enumeration order
FrozenSet(seq) == [tag |-> "frozenset", elems |-> seq]

IsFrozenSet(k) == k.tag = "frozenset"

Range(seq) == {seq[i] : i \in DOMAIN seq}

\* the value of a frozenset: its elements, whatever the enumeration order
Elems(k) == Range(k.elems)

Objs == DOMAIN heap

NoDupSeqs(S, n) ==
    UNION {{q \in [1..m -> S] : \A i, j \in 1..m : i # j => q[i] # q[j]} : m \in 0..n}

\* State.__init__
NewState(knowledges) == [knowledges |-> knowledges]

Arity(h, s) == Len(h[s].knowledges)

\* a base state: State(label)
IsBase(h, s) == Arity(h, s) = 1 /\ ~IsFrozenSet(h[s].knowledges[1])

\* every state referenced from the knowledge of s
Members(h, s) ==
    IF IsBase(h, s) THEN {}
    ELSE UNION {Elems(h[s].knowledges[i]) : i \in 1..Arity(h, s)}

RECURSIVE Level(_, _)
\* nesting level: 0 for a base state, one more than its members otherwise
Level(h, s) ==
    IF IsBase(h, s) THEN 0
    ELSE IF Members(h, s) = {} THEN 1
    ELSE 1 + Level(h, CHOOSE m \in Members(h, s) : TRUE)

----------------------------------------------------------------------------
(* Results of calls *)

NoCall == [op |-> "none"]

Returned(v) == [exc |-> "none", value |-> v]

Raised(e) == [exc |-> e]

----------------------------------------------------------------------------
(* State.__getitem__ *)

\* self[index] without the case of a singleton: always knowledges[index]
GetItemNoSingleton(h, s, index) ==
    IF index + 1 \in DOMAIN h[s].knowledges
    THEN Returned(h[s].knowledges[index + 1])
    ELSE Raised("IndexError")

\* self[index]: the knowledge of the specified player
GetItem(h, s, index) ==
    IF Len(h[s].knowledges) = 1
    THEN Returned(h[s].knowledges[1])
    ELSE IF index + 1 \in DOMAIN h[s].knowledges
         THEN Returned(h[s].knowledges[index + 1])
         ELSE Raised("IndexError")

----------------------------------------------------------------------------
(* Equality and hashing: State defines neither __eq__ nor __hash__, so     *)
(* Python's defaults for object apply                                      *)

\* a == b
Eq(a, b) == a = b

\* hash(a)
Hash(a) == a

\* set(iterable) / a set display: one element per class of equal, equally
\* hashed objects
PySet(seq) ==
    {seq[i] : i \in {j \in DOMAIN seq :
                        \A k \in 1..(j - 1) :
                            ~(Hash(seq[k]) = Hash(seq[j]) /\ Eq(seq[k], seq[j]))}}

----------------------------------------------------------------------------
(* State.consistent_base *)

\* set.intersection(*sets)
Intersection(sets) == {x \in UNION sets : \A S \in sets : x \in S}

\* the set comprehension of one round of the while loop: for every state of
\* the frontier, the intersection over range(len(self.knowledges)) of
\* set(state[player])
RoundSets(h, self, states) ==
    {Intersection({PySet(GetItem(h, state, player).value.elems) :
                      player \in 0..(Arity(h, self) - 1)}) : state \in states}

RECURSIVE ConsistentLoop(_, _, _, _)
\* the while loop; _pick(states) raises None, a TypeError, on an empty set
ConsistentLoop(h, self, states, rounds) ==
    IF states = {}
    THEN Raised("TypeError")
    ELSE LET picked == CHOOSE x \in states : TRUE
         IN  IF Len(h[picked].knowledges) > 1
             THEN ConsistentLoop(h, self, Intersection(RoundSets(h, self, states)),
                                 rounds + 1)
             ELSE [exc |-> "none", value |-> states, rounds |-> rounds]

\* self.consistent_base(); with a single frozenset knowledge, states is the
\* set holding that frozenset, and _pick(states).knowledges is an attribute
\* a frozenset does not have
ConsistentBase(h, self) ==
    IF Len(h[self].knowledges) = 1 /\ IsFrozenSet(h[self].knowledges[1])
    THEN Raised("AttributeError")
    ELSE ConsistentLoop(h, self, {self}, 0)

----------------------------------------------------------------------------
(* State.__repr__, State.__str__, State.epistemic_nice *)

RECURSIVE Join(_, _)
\* sep.join(strs)
Join(strs, sep) ==
    IF Len(strs) = 0 THEN ""
    ELSE IF Len(strs) = 1 THEN strs[1]
    ELSE strs[1] \o sep \o Join(Tail(strs), sep)

\* str(id(self))
StrId(s) == ToString(s)

RECURSIVE Repr(_, _, _)
\* repr(self) with State.compact_representation = compact; str(set(...))
\* and str(tuple(...)) call repr on every element
Repr(h, s, compact) ==
    LET StrSet(k) ==
            IF Len(k.elems) = 0 THEN "set()"
            ELSE "{" \o Join([i \in DOMAIN k.elems |-> Repr(h, k.elems[i], compact)],
                             ", ") \o "}"
        ks == h[s].knowledges
    IN  IF compact THEN StrId(s)
        ELSE IF Len(ks) = 1
             THEN IF IsFrozenSet(ks[1]) THEN StrSet(ks[1]) ELSE ks[1].val
             ELSE "(" \o Join([i \in DOMAIN ks |-> StrSet(ks[i])], ", ") \o ")"

\* str(self)
Str(h, s, compact) == Repr(h, s, compact)

RECURSIVE EpistemicNice(_, _, _)
\* self.epistemic_nice(level)
EpistemicNice(h, s, level) ==
    LET ks == h[s].knowledges
        Nice(k, l) == [i \in DOMAIN k.elems |-> EpistemicNice(h, k.elems[i], l)]
        Wrap(state, l) ==
            IF Len(h[state].knowledges) > 1
            THEN "(" \o EpistemicNice(h, state, l + 1) \o ")"
            ELSE h[state].knowledges[1].val
        Single == IF IsFrozenSet(ks[1])
                  THEN "{" \o Join(Nice(ks[1], level + 1), ", ") \o "}"
                  ELSE ks[1].val
    IN  IF level = 0
        THEN IF Len(ks) > 1
             THEN Join([p \in DOMAIN ks |->
                          "{" \o Join(Nice(ks[p], level + 1), ", ") \o "}"], "\n")
             ELSE Single
        ELSE IF Len(ks) > 1
             THEN Join([p \in DOMAIN ks |->
                          Join([i \in DOMAIN ks[p].elems |->
                                  Wrap(ks[p].elems[i], level)], "")], "-")
             ELSE Single

----------------------------------------------------------------------------
(* The graph the e-tree is built in: networkx's DiGraph, its nodes with    *)
(* their attributes, and each node's successors in insertion order         *)

\* the parent of the root: None
NoParent == "None"

\* nx.DiGraph()
EmptyGraph ==
    [nodes |-> [x \in {} |-> 0], adj |-> [x \in {} |-> <<>>], order |-> <<>>,
     visits |-> {}]

\* G.add_node(id, label=.., parent=.., player=..): a node that exists keeps
\* its place and its edges, and takes the new attributes
AddNode(g, id, label, parent, player) ==
    [g EXCEPT
        !.nodes = [x \in DOMAIN g.nodes \cup {id} |->
                     IF x = id
                     THEN [label |-> label, parent |-> parent, player |-> player]
                     ELSE g.nodes[x]],
        !.adj = [x \in DOMAIN g.adj \cup {id} |->
                     IF x \in DOMAIN g.adj THEN g.adj[x] ELSE <<>>],
        !.order = IF id \in DOMAIN g.nodes THEN g.order ELSE Append(g.order, id)]

\* G.add_edge(u, v, label=p), both nodes being in the graph
AddEdge(g, u, v) ==
    [g EXCEPT !.adj[u] = IF v \in Range(g.adj[u]) THEN g.adj[u]
                         ELSE Append(g.adj[u], v)]

\* list(G.neighbors(n))
Neighbors(g, n) == g.adj[n]

\* the nodes with an edge leaving them, in the order list(G.edges) meets them
EdgeSources(g) == SelectSeq(g.order, LAMBDA n : Len(g.adj[n]) > 0)

----------------------------------------------------------------------------
(* State.parse_knowledge and its create_id *)

\* hashlib.sha1(str.encode(s)).hexdigest(), taken to be injective: the
\* digest is written as the text it is the digest of
Sha1(str) == "sha1(" \o str \o ")"

\* str(player)
StrPlayer(player) == ToString(player)

RECURSIVE HashString(_, _, _)
\* the while loop of create_id: label and player of every node from parent
\* up to the root are put in front of the string, nothing between them
HashString(g, parent, hash_string) ==
    IF parent = NoParent THEN hash_string
    ELSE HashString(g, g.nodes[parent].parent,
                    g.nodes[parent].label \o StrPlayer(g.nodes[parent].player)
                        \o hash_string)

\* create_id(node, parent, player)
CreateId(g, node, parent, player) ==
    Sha1(HashString(g, parent, node \o StrPlayer(player)))

RECURSIVE Chain(_, _)
\* the (label, player) pairs from the root down to node parent: what
\* create_id reads on its way up
Chain(g, parent) ==
    IF parent = NoParent THEN <<>>
    ELSE Append(Chain(g, g.nodes[parent].parent),
                <<g.nodes[parent].label, g.nodes[parent].player>>)

\* the label of a tree node: "{" + ", ".join(...) + "}" over the base
\* states in the order the knowledge set enumerates them
TreeNode(h, indexed_knowledges) ==
    "{" \o Join([i \in DOMAIN indexed_knowledges |->
                   h[indexed_knowledges[i]].knowledges[1].val], ", ") \o "}"

\* the players range(len(state.knowledges)) without the current player
OtherPlayers(n, player) ==
    SelectSeq([i \in 1..n |-> i - 1], LAMBDA p : p # player)

\* the (state, p) pairs in the order the two nested for loops meet them
ChildCalls(h, indexed_knowledges, player) ==
    LET Others(state) == OtherPlayers(Len(h[state].knowledges), player)
        RECURSIVE Calls(_)
        Calls(i) ==
            IF i > Len(indexed_knowledges) THEN <<>>
            ELSE [k \in DOMAIN Others(indexed_knowledges[i]) |->
                     <<indexed_knowledges[i], Others(indexed_knowledges[i])[k]>>]
                 \o Calls(i + 1)
    IN  Calls(1)

RECURSIVE ParseKnowledge(_, _, _, _, _)
RECURSIVE ParseChildren(_, _, _, _, _)

\* self.parse_knowledge(parent, player, G): the graph afterwards and the id
\* returned.  visits records, for every node visit, the chain it was reached
\* by and the id it was given.
ParseKnowledge(h, self, parent, player, g) ==
    LET indexed_knowledges == h[self].knowledges[player + 1].elems
    IN  IF Len(h[indexed_knowledges[1]].knowledges) = 1
        THEN LET tree_node == TreeNode(h, indexed_knowledges)
                 node_id == CreateId(g, tree_node, parent, player)
                 visit == [chain |-> Append(Chain(g, parent), <<tree_node, player>>),
                           id |-> node_id]
             IN  [G |-> [AddNode(g, node_id, tree_node, parent, player)
                            EXCEPT !.visits = @ \cup {visit}],
                  node |-> node_id]
        ELSE LET first == ParseKnowledge(h, indexed_knowledges[1], parent, player, g)
             IN  [G |-> ParseChildren(h, ChildCalls(h, indexed_knowledges, player), 1,
                                      first.node, first.G),
                  node |-> first.node]

\* the for loops that add the child nodes and the edges to them
ParseChildren(h, calls, i, parent_node, g) ==
    IF i > Len(calls) THEN g
    ELSE LET child == ParseKnowledge(h, calls[i][1], parent_node, calls[i][2], g)
         IN  ParseChildren(h, calls, i + 1, parent_node,
                           AddEdge(child.G, parent_node, child.node))

----------------------------------------------------------------------------
(* State.epistemic_trees_recursive_at_depth and what it calls *)

RECURSIVE SubtreeLoop(_, _, _)
\* the while loop of _epistemic_subtree_equals over the two queues
SubtreeLoop(g, queue1, queue2) ==
    IF Len(queue1) = 0 \/ Len(queue2) = 0 THEN TRUE
    ELSE LET curr1 == queue1[1]
             curr2 == queue2[1]
             neighbors1 == Neighbors(g, curr1)
             neighbors2 == Neighbors(g, curr2)
         IN  IF g.nodes[curr1].label # g.nodes[curr2].label
                \/ g.nodes[curr1].player # g.nodes[curr2].player
             THEN FALSE
             ELSE IF Len(neighbors1) = 0 \/ Len(neighbors2) = 0 THEN TRUE
             ELSE IF Len(neighbors1) # Len(neighbors2) THEN FALSE
             ELSE SubtreeLoop(g, Tail(queue1) \o neighbors1, Tail(queue2) \o neighbors2)

\* self._epistemic_subtree_equals(G, node1, node2)
EpistemicSubtreeEquals(g, node1, node2) == SubtreeLoop(g, <<node1>>, <<node2>>)

RECURSIVE Flatten(_)
\* the concatenation of a list of lists
Flatten(lists) == IF Len(lists) = 0 THEN <<>> ELSE lists[1] \o Flatten(Tail(lists))

RECURSIVE DepthLoop(_, _, _)
\* the while loop of _epistemic_nodes_at_depth
DepthLoop(g, current_depth, depth) ==
    IF depth = 0 THEN current_depth
    ELSE DepthLoop(g,
                   Flatten([i \in DOMAIN current_depth |-> Neighbors(g, current_depth[i])]),
                   depth - 1)

\* self._epistemic_nodes_at_depth(G, depth), G having an edge: the root is
\* list(G.edges)[0][0]
EpistemicNodesAtDepth(g, depth) == DepthLoop(g, <<EdgeSources(g)[1]>>, depth)

RECURSIVE GetEpistemicDepthFrom(_, _, _)
\* the while loop of _get_epistemic_depth; it ends without a value (None)
\* when the nodes run out
GetEpistemicDepthFrom(g, node, depth) ==
    LET nodes_at_depth == Range(EpistemicNodesAtDepth(g, depth))
    IN  IF nodes_at_depth = {} THEN -1
        ELSE IF node \in nodes_at_depth THEN depth
        ELSE GetEpistemicDepthFrom(g, node, depth + 1)

\* self._get_epistemic_depth(G, node)
GetEpistemicDepth(g, node) == GetEpistemicDepthFrom(g, node, 0)

\* self._has_recursive_ancestor(G, node)
HasRecursiveAncestor(g, node) ==
    \E depth \in 0..(GetEpistemicDepth(g, node) - 1) :
        \E n \in Range(EpistemicNodesAtDepth(g, depth)) :
            EpistemicSubtreeEquals(g, node, n)

RECURSIVE RecursiveFrom(_, _, _, _)
\* the for loop over the players: each builds its tree in a fresh graph;
\* list(G.edges)[0] is an IndexError on a graph without edges, and the first
\* node without a recursive ancestor ends the call with False
RecursiveFrom(h, self, depth, player) ==
    IF player >= Len(h[self].knowledges) THEN Returned(TRUE)
    ELSE LET g == ParseKnowledge(h, self, NoParent, player, EmptyGraph).G
         IN  IF Len(EdgeSources(g)) = 0 THEN Raised("IndexError")
             ELSE IF \A node \in Range(EpistemicNodesAtDepth(g, depth)) :
                        HasRecursiveAncestor(g, node)
             THEN RecursiveFrom(h, self, depth, player + 1)
             ELSE Returned(FALSE)

\* self.epistemic_trees_recursive_at_depth(depth)
EpistemicTreesRecursiveAtDepth(h, self, depth) == RecursiveFrom(h, self, depth, 0)

----------------------------------------------------------------------------
(* State.__lt__, State.__gt__ *)

\* self < other with id(self) <= id(other) for the comparison
LtNotStrict(flag, self, other) ==
    IF ~flag THEN Raised("AssertionError") ELSE Returned(self <= other)

\* self < other
Lt(flag, self, other) ==
    IF ~flag THEN Raised("AssertionError") ELSE Returned(self < other)

\* self > other
Gt(flag, self, other) ==
    IF ~flag THEN Raised("AssertionError") ELSE Returned(self > other)

----------------------------------------------------------------------------
(* G.KBSC(): the transform of one game into the game of its knowledge      *)
(* states                                                                  *)

Range2(seq) == {seq[i] : i \in DOMAIN seq}

Players == 1..NumPlayers

\* the joint actions: one action of its alphabet per player
JointActions == {a \in [Players -> UNION {Range2(Sigma[p]) : p \in Players}] :
                    \A p \in Players : a[p] \in Range2(Sigma[p])}

\* the observation class of player p that state q belongs to
ObsClass(p, q) ==
    UNION {Range2(Obs[p][i]) : i \in {j \in DOMAIN Obs[p] : q \in Range2(Obs[p][j])}}

\* the states player p holds possible after doing act in one of K
Post(p, K, act) ==
    {Delta[i][3] : i \in {j \in DOMAIN Delta : Delta[j][1] \in K /\ Delta[j][2][p] = act}}

\* the states consistent with every player's knowledge
Actual(S) == {q \in Range2(L) : \A p \in Players : q \in S[p]}

\* the transitions of the game that joint action a takes from the states
\* consistent with S
Moves(S, a) ==
    {i \in DOMAIN Delta : Delta[i][1] \in Actual(S) /\ Delta[i][2] = a}

\* a joint action is enabled at S iff it is enabled at every state
\* consistent with every player's knowledge
EnabledAt(S, a) ==
    \A q \in Actual(S) : \E i \in DOMAIN Delta : Delta[i][1] = q /\ Delta[i][2] = a

\* the knowledge states that follow S by a: per actual branch, what every
\* player holds possible after its own action and its own observation
Successors(S, a) ==
    IF ~EnabledAt(S, a) THEN {}
    ELSE {[p \in Players |-> Post(p, S[p], a[p]) \cap ObsClass(p, Delta[i][3])] :
             i \in Moves(S, a)}

\* the initial state: what every player knows of the empty history
InitialKnowledge == [p \in Players |-> {L0}]

\* one joint action is tried at the state at the head of the queue
Explore(a) ==
    /\ queue # <<>>
    /\ a \notin explored
    /\ LET S == Head(queue)
           new == Successors(S, a)
           fresh == new \ GK.states
       IN  /\ GK' = [GK EXCEPT !.states = @ \cup new,
                               !.transitions = @ \cup {<<S, a, T>> : T \in new}]
           /\ \E order \in NoDupSeqs(fresh, Cardinality(fresh)) :
                 /\ Len(order) = Cardinality(fresh)
                 /\ queue' = queue \o order
    /\ explored' = explored \cup {a}
    /\ UNCHANGED <<heap, compact_representation, orderable, ret, G>>

\* every joint action has been tried at the head of the queue
Dequeue ==
    /\ queue # <<>>
    /\ explored = JointActions
    /\ queue' = Tail(queue)
    /\ explored' = {}
    /\ UNCHANGED <<heap, compact_representation, orderable, ret, G, GK>>

----------------------------------------------------------------------------
(* The operations of the class as actions *)

Call(op, self, arg, res) == [op |-> op, self |-> self, arg |-> arg, res |-> res]

\* no call is in progress: the caller has taken the result of the last one
Idle == ret.op = "none"

\* the members of a new state come from one game: all of one level, and
\* nested in the arity of the new state
Uniform(h, n, ks) ==
    LET ms == UNION {Range(ks[i]) : i \in 1..n}
    IN  /\ \A a, b \in ms : Level(h, a) = Level(h, b)
        /\ \A a \in ms : IsBase(h, a) \/ Arity(h, a) = n

\* games are built level by level (G, then G.KBSC(), then its KBSC()): a new
\* state is never of a lower level than the states that exist
InLevelOrder(h) == \A a, b \in DOMAIN h : a < b => Level(h, a) <= Level(h, b)

\* State(label)
NewBase(l) ==
    /\ heap' = Append(heap, NewState(<<Label(l)>>))
    /\ InLevelOrder(heap')
    /\ UNCHANGED <<compact_representation, orderable, ret, G, GK, queue, explored>>

\* State(frozenset(...), ..., frozenset(...)), one frozenset per player
NewNested(n, ks) ==
    /\ Uniform(heap, n, ks)
    /\ heap' = Append(heap, NewState([i \in 1..n |-> FrozenSet(ks[i])]))
    /\ InLevelOrder(heap')
    /\ UNCHANGED <<compact_representation, orderable, ret, G, GK, queue, explored>>

\* the construction of one more State object: of any arity up to the
\* game's, its knowledge sets possibly empty
Construct ==
    /\ Idle
    /\ Len(heap) < MaxObjs
    /\ \/ \E l \in Labels : NewBase(l)
       \/ \E n \in 1..NumPlayers :
             \E ks \in [1..n -> NoDupSeqs(Objs, Len(heap))] : NewNested(n, ks)

\* the construction of one more state of a game of NumPlayers players, as
\* KBSC() makes them: no knowledge set is empty
ConstructGameState ==
    /\ Idle
    /\ Len(heap) < TreeObjs
    /\ \/ \E l \in Labels : NewBase(l)
       \/ \E ks \in [1..NumPlayers -> NoDupSeqs(Objs, Len(heap)) \ {<<>>}] :
             NewNested(NumPlayers, ks)

\* the construction of one more state of the base game or of its KBSC()
ConstructLevelOne ==
    /\ G = EmptyGraph
    /\ Len(heap) < VisitObjs
    /\ \/ \E l \in ChainLabels : NewBase(l)
       \/ \E ks \in [1..NumPlayers -> NoDupSeqs(Objs, Len(heap)) \ {<<>>}] :
             /\ \A p \in 1..NumPlayers : \A x \in Range(ks[p]) : IsBase(heap, x)
             /\ NewNested(NumPlayers, ks)

\* State.compact_representation = b
SetCompact(b) ==
    /\ Idle
    /\ compact_representation # b
    /\ compact_representation' = b
    /\ UNCHANGED <<heap, orderable, ret, G, GK, queue, explored>>

\* State.orderable = b
SetOrderable(b) ==
    /\ Idle
    /\ orderable # b
    /\ orderable' = b
    /\ UNCHANGED <<heap, compact_representation, ret, G, GK, queue, explored>>

\* a call that changes nothing but gives res
Gives(op, self, arg, res) ==
    /\ Idle
    /\ ret' = Call(op, self, arg, res)
    /\ UNCHANGED <<heap, compact_representation, orderable, G, GK, queue, explored>>

CallGetItem(s, index) == Gives("getitem", s, index, GetItem(heap, s, index))

CallEq(a, b) == Gives("eq", a, b, Returned(Eq(a, b)))

CallConsistentBase(s) == Gives("consistent_base", s, 0, ConsistentBase(heap, s))

CallRepr(s) == Gives("repr", s, 0, Returned(Repr(heap, s, compact_representation)))

CallEpistemicNice(s) == Gives("epistemic_nice", s, 0, Returned(EpistemicNice(heap, s, 0)))

CallLt(a, b) == Gives("lt", a, b, Lt(orderable, a, b))

CallGt(a, b) == Gives("gt", a, b, Gt(orderable, a, b))

\* G = nx.DiGraph(); self.parse_knowledge(None, player, G)
CallParseKnowledge(s, player) ==
    /\ ~IsBase(heap, s)
    /\ Gives("parse_knowledge", s, player,
             Returned(ParseKnowledge(heap, s, NoParent, player, EmptyGraph)))

CallTreesRecursive(s, depth) ==
    /\ ~IsBase(heap, s)
    /\ Gives("epistemic_trees_recursive_at_depth", s, depth,
             EpistemicTreesRecursiveAtDepth(heap, s, depth))

\* the caller takes the result of the call
Return ==
    /\ ~Idle
    /\ ret' = NoCall
    /\ UNCHANGED <<heap, compact_representation, orderable, G, GK, queue, explored>>

\* child_node = state.parse_knowledge(parent, p, G) on a state of the first
\* KBSC(), and G.add_edge(parent, child_node): the step that adds one node to
\* the graph, as the recursion takes it on the members of deeper states.
\* The root is added first, and a child is not of its parent's player.
Visit(s, parent, player) ==
    /\ ~IsBase(heap, s)
    /\ Cardinality(DOMAIN G.nodes) < MaxNodes
    /\ (parent = NoParent) <=> (G = EmptyGraph)
    /\ parent # NoParent => G.nodes[parent].player # player
    /\ LET child == ParseKnowledge(heap, s, parent, player, G)
       IN  G' = IF parent = NoParent THEN child.G
                ELSE AddEdge(child.G, parent, child.node)
    /\ UNCHANGED <<heap, compact_representation, orderable, ret, GK, queue, explored>>

----------------------------------------------------------------------------
(* The specifications *)

InitState ==
    /\ heap = <<>>
    /\ compact_representation = FALSE
    /\ orderable = FALSE
    /\ ret = NoCall
    /\ G = EmptyGraph

InitGame ==
    /\ GK = [states |-> {InitialKnowledge}, initial |-> InitialKnowledge,
             transitions |-> {}]
    /\ queue = <<InitialKnowledge>>
    /\ explored = {}

Init == InitState /\ InitGame

\* the State objects and the calls on them
Next ==
    \/ Construct
    \/ \E b \in BOOLEAN : SetCompact(b)
    \/ \E b \in BOOLEAN : SetOrderable(b)
    \/ \E s \in Objs, index \in 0..(NumPlayers - 1) : CallGetItem(s, index)
    \/ \E a, b \in Objs : CallEq(a, b)
    \/ \E s \in Objs : CallConsistentBase(s)
    \/ \E s \in Objs : CallRepr(s)
    \/ \E s \in Objs : CallEpistemicNice(s)
    \/ \E a, b \in Objs : CallLt(a, b)
    \/ \E a, b \in Objs : CallGt(a, b)
    \/ Return

Spec == Init /\ [][Next]_vars

\* the e-trees of the states of a game
NextTree ==
    \/ ConstructGameState
    \/ \E s \in Objs, player \in 0..(NumPlayers - 1) : CallParseKnowledge(s, player)
    \/ \E s \in Objs, depth \in 0..MaxDepth : CallTreesRecursive(s, depth)
    \/ Return

SpecTree == Init /\ [][NextTree]_vars

\* one graph, built node by node
NextVisit ==
    \/ ConstructLevelOne
    \/ \E s \in Objs, parent \in DOMAIN G.nodes \cup {NoParent},
          player \in 0..(NumPlayers - 1) : Visit(s, parent, player)

SpecVisit == Init /\ [][NextVisit]_vars

\* G.KBSC() on the game of main.py
NextKBSC ==
    \/ \E a \in JointActions : Explore(a)
    \/ Dequeue

SpecKBSC == Init /\ [][NextKBSC]_vars

----------------------------------------------------------------------------
(* Notions the statements below are phrased in *)

RECURSIVE StructEq(_, _, _)
\* structural equality of two states: equal labels, or, player by player,
\* knowledge sets that are equal as sets of structurally equal states
StructEq(h, a, b) ==
    IF IsBase(h, a) /\ IsBase(h, b)
    THEN h[a].knowledges[1].val = h[b].knowledges[1].val
    ELSE /\ ~IsBase(h, a)
         /\ ~IsBase(h, b)
         /\ Arity(h, a) = Arity(h, b)
         /\ \A p \in 1..Arity(h, a) :
               LET A == Elems(h[a].knowledges[p])
                   B == Elems(h[b].knowledges[p])
               IN  /\ \A x \in A : \E y \in B : StructEq(h, x, y)
                   /\ \A y \in B : \E x \in A : StructEq(h, x, y)

RECURSIVE Frontier(_, _, _)
\* F_0 = {s}; F_(i+1) = the states that belong to the knowledge set of every
\* player of every state of F_i
Frontier(h, s, i) ==
    IF i = 0 THEN {s}
    ELSE Intersection(UNION {{Elems(h[t].knowledges[p]) : p \in 1..Arity(h, t)} :
                                t \in Frontier(h, s, i - 1)})

\* every intersection met on the way from s down to the base level is non-empty
Consistent(h, s) == \A i \in 0..Level(h, s) : Frontier(h, s, i) # {}

----------------------------------------------------------------------------
(* C1 *)

\* C1: equality of State values is structural: a == b exactly when a and b
\* are structurally equal, and then they hash alike and {a, b} has one
\* element.
C1_StructuralEquality ==
    ret.op = "eq" =>
        LET a == ret.self
            b == ret.arg
        IN  /\ ret.res.value = StructEq(heap, a, b)
            /\ StructEq(heap, a, b) =>
                  /\ Hash(a) = Hash(b)
                  /\ Cardinality(PySet(<<a, b>>)) = 1

----------------------------------------------------------------------------
(* C2, C3 *)

\* C2: on a state of level k whose intersections are all non-empty,
\* consistent_base() returns after exactly k rounds the frontier F_k, all of
\* whose elements are base-level states.
C2_ConsistentBase ==
    (ret.op = "consistent_base" /\ Consistent(heap, ret.self)) =>
        /\ ret.res.exc = "none"
        /\ ret.res.rounds = Level(heap, ret.self)
        /\ ret.res.value = Frontier(heap, ret.self, Level(heap, ret.self))
        /\ \A x \in ret.res.value : Len(heap[x].knowledges) = 1

\* C2 for the states of games of two or more players, where the source does
\* what the claim says
C2_ConsistentBaseManyPlayers ==
    (ret.op = "consistent_base" /\ Consistent(heap, ret.self)
        /\ (IsBase(heap, ret.self) \/ Arity(heap, ret.self) > 1)) =>
        /\ ret.res.exc = "none"
        /\ ret.res.rounds = Level(heap, ret.self)
        /\ ret.res.value = Frontier(heap, ret.self, Level(heap, ret.self))
        /\ \A x \in ret.res.value : IsBase(heap, x)

\* C3: when an intersection is empty, consistent_base() fails with
\* InconsistentKnowledge, and with no other error or result.
C3_InconsistentKnowledge ==
    (ret.op = "consistent_base" /\ ~Consistent(heap, ret.self)) =>
        ret.res.exc = "InconsistentKnowledge"

----------------------------------------------------------------------------
(* C8 *)

\* C8: the text repr / epistemic_nice give is a function of the value alone:
\* after any changes of State.compact_representation it is the text given
\* while the flag was False, as the class sets it, and it is the text of
\* every state of the same value.
C8_RenderingIsPure ==
    /\ ret.op = "repr" =>
          /\ ret.res.value = Repr(heap, ret.self, FALSE)
          /\ \A s \in Objs :
                StructEq(heap, s, ret.self) =>
                    Repr(heap, s, compact_representation) = ret.res.value
    /\ ret.op = "epistemic_nice" =>
          \A s \in Objs :
              StructEq(heap, s, ret.self) => EpistemicNice(heap, s, 0) = ret.res.value

\* the part of C8 that the source keeps: a rendering changes neither a state
\* nor a class-level flag
C8_RenderingChangesNothing ==
    [][(ret'.op \in {"repr", "epistemic_nice"} /\ ret.op = "none") =>
          UNCHANGED <<heap, compact_representation, orderable>>]_vars

----------------------------------------------------------------------------
(* C9 *)

\* C9 (as claimed): state[p] is the knowledge set of player p for a nested
\* state, and for a base state the one-element set holding the state itself.
C9_ProjectionWrapsBase ==
    ret.op = "getitem" =>
        LET s == ret.self
        IN  /\ (~IsBase(heap, s) /\ ret.arg < Arity(heap, s)) =>
                  ret.res = Returned(heap[s].knowledges[ret.arg + 1])
            /\ IsBase(heap, s) =>
                  /\ ret.res.exc = "none"
                  /\ IsFrozenSet(ret.res.value)
                  /\ Elems(ret.res.value) = {s}

\* C9 (amended): state[p] is the knowledge set of player p for a nested
\* state, and for a base state, for every player index, the label of the
\* state as it is, not a set.
C9_Projection ==
    ret.op = "getitem" =>
        LET s == ret.self
        IN  /\ (~IsBase(heap, s) /\ ret.arg < Arity(heap, s)) =>
                  ret.res = Returned(heap[s].knowledges[ret.arg + 1])
            /\ IsBase(heap, s) =>
                  /\ ret.res.exc = "none"
                  /\ ~IsFrozenSet(ret.res.value)
                  /\ ret.res.value = heap[s].knowledges[1]

C9_Witness ==
    /\ ret.op = "getitem"
    /\ IsBase(heap, ret.self)
    /\ ret.arg = 1
    /\ ret.res = Returned(Label("no hole"))
    /\ \E s \in Objs : ~IsBase(heap, s) /\ Arity(heap, s) = NumPlayers

----------------------------------------------------------------------------
(* C10 *)

\* C10: a < b and a > b complete exactly when State.orderable is True; when
\* it is False they fail with an assertion error, and either way they change
\* neither a state nor a flag.  While the flag is True the comparison is a
\* strict total order on the State objects: a < a is false, of a < b and
\* b < a exactly one holds for distinct objects, and a > b iff b < a.
C10_Ordering ==
    [][(ret.op = "none" /\ ret'.op \in {"lt", "gt"}) =>
          /\ UNCHANGED <<heap, compact_representation, orderable>>
          /\ (ret'.res.exc = "none") <=> orderable
          /\ ~orderable => ret'.res.exc = "AssertionError"
          /\ orderable =>
                /\ ret'.self = ret'.arg => ret'.res.value = FALSE
                /\ \A a, b \in Objs :
                      /\ ~Lt(orderable, a, a).value
                      /\ a # b => Lt(orderable, a, b).value # Lt(orderable, b, a).value
                      /\ Gt(orderable, a, b).value = Lt(orderable, b, a).value]_vars

C10_Witness ==
    /\ ret.op = "lt"
    /\ ret.self # ret.arg
    /\ ret.res = Returned(TRUE)
    /\ orderable

----------------------------------------------------------------------------
(* C4, C5, C6 *)

\* C4: two node visits are folded into one node of the graph exactly when
\* their chains of (label, player) pairs from the root down to the node are
\* the same sequence.
C4_NodeIdentity ==
    \A v1, v2 \in G.visits : (v1.chain = v2.chain) <=> (v1.id = v2.id)

\* the e-tree of player `player` of state s, built in a fresh graph
TreeOf(h, s, player) == ParseKnowledge(h, s, NoParent, player, EmptyGraph).G

\* states with the same knowledge sets, player by player: the same value,
\* held in frozensets that may enumerate it in different orders
SameKnowledge(h, s, t) ==
    /\ Arity(h, s) = Arity(h, t)
    /\ \A p \in 1..Arity(h, s) :
          /\ IsFrozenSet(h[s].knowledges[p]) /\ IsFrozenSet(h[t].knowledges[p])
          /\ Elems(h[s].knowledges[p]) = Elems(h[t].knowledges[p])

\* C5: the node ids, the labels and the edges of an e-tree are a function of
\* the value of the state: every state with the same knowledge sets gives
\* them too, in whichever order its knowledge sets are enumerated.
C5_TreeIsAFunctionOfTheValue ==
    ret.op = "parse_knowledge" =>
        \A s \in Objs :
            SameKnowledge(heap, s, ret.self) =>
                LET g1 == ret.res.value.G
                    g2 == TreeOf(heap, s, ret.arg)
                IN  /\ DOMAIN g1.nodes = DOMAIN g2.nodes
                    /\ \A n \in DOMAIN g1.nodes : g1.nodes[n].label = g2.nodes[n].label
                    /\ \A n \in DOMAIN g1.nodes : Range(g1.adj[n]) = Range(g2.adj[n])

RECURSIVE SameSubtree(_, _, _)
\* structurally identical subtrees: the same label and player and the same
\* number of children at every pair of corresponding nodes
SameSubtree(g, n1, n2) ==
    /\ g.nodes[n1].label = g.nodes[n2].label
    /\ g.nodes[n1].player = g.nodes[n2].player
    /\ Len(g.adj[n1]) = Len(g.adj[n2])
    /\ \A i \in DOMAIN g.adj[n1] : SameSubtree(g, g.adj[n1][i], g.adj[n2][i])

\* the depth of a node: the number of edges from the root to it
DepthOf(g, n) == Len(Chain(g, n)) - 1

\* every node at depth d of the tree has a structurally identical subtree
\* rooted at a node of a depth less than d
RecursiveAt(g, d) ==
    \A n \in DOMAIN g.nodes :
        DepthOf(g, n) = d =>
            \E m \in DOMAIN g.nodes : DepthOf(g, m) < d /\ SameSubtree(g, n, m)

\* C6: epistemic_trees_recursive_at_depth(d) is True exactly when, in every
\* player's e-tree, every node at depth d has a structurally identical
\* subtree rooted at a node of a depth less than d.
C6_RecursiveAtDepth ==
    (ret.op = "epistemic_trees_recursive_at_depth" /\ ret.res.exc = "none") =>
        ret.res.value =
            \A player \in 0..(Arity(heap, ret.self) - 1) :
                RecursiveAt(TreeOf(heap, ret.self, player), ret.arg)

----------------------------------------------------------------------------
(* C7 *)

\* C7: in G.KBSC() of the game of main.py, every state reached from the
\* initial state by the joint action (G, G) has {hole, no hole} as the
\* knowledge set of player 0.
C7_KnowledgeAfterGG ==
    \A t \in GK.transitions :
        (t[1] = GK.initial /\ t[2] = <<"G", "G">>) => t[3][1] = {"hole", "no hole"}

C7_Witness ==
    /\ <<GK.initial, <<"G", "G">>, <<{"hole", "no hole"}, {"hole"}>>>> \in GK.transitions
    /\ <<GK.initial, <<"G", "G">>, <<{"hole", "no hole"}, {"no hole"}>>>> \in GK.transitions
    /\ queue = <<>>

====
